---- MODULE Spec2Model ----
(***************************************************************************)
(* A model of the zoneinfo line parser of src/src/line.rs.                 *)
(*                                                                         *)
(* A line of text is a TLA+ string; a character is a string of length 1.   *)
(* The parser is a set of pure functions; each is an operator here, and    *)
(* the state machine below applies them to inputs drawn from bounded sets. *)
(* A Rust `Result` is a record with tag "Ok" or "Err"; a panic (a failed   *)
(* `unwrap`, an `unreachable!`) is a third outcome with tag "Panic".       *)
(* An `Option` is a sequence of length 0 (None) or 1 (Some).               *)
(*                                                                         *)
(* A second state machine, SpecResolve, applies the resolution functions   *)
(* DaySpec::to_concrete_date and ChangeTime::to_timestamp to parsed        *)
(* values; there the input of a call is a record of its arguments.         *)
(***************************************************************************)
EXTENDS Integers, Sequences, FiniteSets, TLC

VARIABLES op, input, result

vars == <<op, input, result>>

---------------------------------------------------------------------------
(* Characters and character classes.                                       *)

\* The module text is ASCII: the Unicode hyphen U+2010 of line 234 is
\* written "~", a character that occurs nowhere else in the inputs and, like
\* U+2010, is neither whitespace, a letter, a digit nor a word character.
HYPHEN_2010 == "~"

Lowers == {"a","b","c","d","e","f","g","h","i","j","k","l","m",
           "n","o","p","q","r","s","t","u","v","w","x","y","z"}

Uppers == {"A","B","C","D","E","F","G","H","I","J","K","L","M",
           "N","O","P","Q","R","S","T","U","V","W","X","Y","Z"}

Digits == {"0","1","2","3","4","5","6","7","8","9"}

\* char::is_alphabetic
is_alphabetic(c) == c \in Lowers \cup Uppers

\* char::is_digit(10)
is_digit(c) == c \in Digits

\* The regex class \s (the whitespace the inputs use).
Whitespace == {" ", "\t", "\n"}

\* Membership of character c in a regex character class.
InClass(cls, c) ==
    CASE cls = "\\s"      -> c \in Whitespace
      [] cls = "\\S"      -> c \notin Whitespace
      [] cls = "\\d"      -> c \in Digits
      [] cls = "\\w"      -> c \in Lowers \cup Uppers \cup Digits \cup {"_"}
      [] cls = "."        -> c # "\n"
      [] cls = "[<>]"     -> c \in {"<", ">"}
      [] cls = "[wsugz]"  -> c \in {"w", "s", "u", "g", "z"}
      [] cls = "[A-Za-z0-9/_+-]"
                          -> c \in Lowers \cup Uppers \cup Digits \cup {"/", "_", "+", "-"}
      [] cls = "-"        -> c = "-"
      [] cls = ":"        -> c = ":"
      [] cls = "="        -> c = "="
      [] cls = "#"        -> c = "#"

CharAt(s, i) == SubSeq(s, i, i)

\* str::chars().all(p) for the three predicates the parser uses.
AllDigits(s) == \A i \in 1..Len(s) : is_digit(CharAt(s, i))

AllHyphenOrDigit(s) == \A i \in 1..Len(s) : CharAt(s, i) = "-" \/ is_digit(CharAt(s, i))

AllNameChars(s) ==
    \A i \in 1..Len(s) :
        CharAt(s, i) = "-" \/ CharAt(s, i) = "_" \/ is_alphabetic(CharAt(s, i))

\* str::starts_with
starts_with(s, p) == Len(s) >= Len(p) /\ SubSeq(s, 1, Len(p)) = p

\* str::to_ascii_lowercase
LowerOf(c) ==
    CASE c = "A" -> "a" [] c = "B" -> "b" [] c = "C" -> "c" [] c = "D" -> "d"
      [] c = "E" -> "e" [] c = "F" -> "f" [] c = "G" -> "g" [] c = "H" -> "h"
      [] c = "I" -> "i" [] c = "J" -> "j" [] c = "K" -> "k" [] c = "L" -> "l"
      [] c = "M" -> "m" [] c = "N" -> "n" [] c = "O" -> "o" [] c = "P" -> "p"
      [] c = "Q" -> "q" [] c = "R" -> "r" [] c = "S" -> "s" [] c = "T" -> "t"
      [] c = "U" -> "u" [] c = "V" -> "v" [] c = "W" -> "w" [] c = "X" -> "x"
      [] c = "Y" -> "y" [] c = "Z" -> "z" [] OTHER -> c

RECURSIVE to_ascii_lowercase(_)
to_ascii_lowercase(s) ==
    IF s = "" THEN ""
    ELSE LowerOf(CharAt(s, 1)) \o to_ascii_lowercase(SubSeq(s, 2, Len(s)))

---------------------------------------------------------------------------
(* Option and Result.                                                      *)

None == <<>>

Some(x) == <<x>>

Ok(v) == [tag |-> "Ok", val |-> v]

\* Err(Error::Fail): the parser's only error value.
ErrFail == [tag |-> "Err", err |-> "Fail"]

\* A panic: the call does not return.
Panic(msg) == [tag |-> "Panic", msg |-> msg]

IsOk(r) == r.tag = "Ok"

\* try!(r) (as at line 220) followed by the rest of the function, k, which
\* is given r's value: an error is returned at once, and a panic ends the call.
Try(r, k(_)) == IF IsOk(r) THEN k(r.val) ELSE r

\* if let Ok(v) = r { k(v) } else { e } (as at line 821); a panic in r ends
\* the call.
IfOk(r, k(_), e) == IF r.tag = "Panic" THEN r ELSE IF IsOk(r) THEN k(r.val) ELSE e

\* if let Some(v) = o { k(v) } else { e } (as at line 218)
IfSome(o, k(_), e) == IF o # None THEN k(o[1]) ELSE e

---------------------------------------------------------------------------
(* The regex engine: leftmost-first (backtracking) matching of a pattern,  *)
(* a sequence of instructions, against a string from its start.            *)

Lit(t) == [ins |-> "lit", text |-> t]

\* cls{lo,hi}, greedy
Rep(cls, lo, hi) == [ins |-> "rep", cls |-> cls, lo |-> lo, hi |-> hi, unbounded |-> FALSE]

\* cls+ (lo = 1) and cls* (lo = 0), greedy
Many(cls, lo) == [ins |-> "rep", cls |-> cls, lo |-> lo, hi |-> 0, unbounded |-> TRUE]

\* ( ?P<name>
Open(name) == [ins |-> "open", name |-> name]

\* )
Close(name) == [ins |-> "close", name |-> name]

\* The start of a group that ends with ")?": n instructions, the closing one
\* included, are skipped when the group does not take part in the match.
OptOpen(name, n) == [ins |-> "optopen", name |-> name, skip |-> n]

\* $
End == [ins |-> "end"]

NoMatch == [matched |-> FALSE]

\* The longest run of characters of cls in s from pos, at most hi long.
RECURSIVE MaxRun(_, _, _, _)
MaxRun(cls, s, pos, hi) ==
    IF hi = 0 \/ pos > Len(s) \/ ~InClass(cls, CharAt(s, pos)) THEN 0
    ELSE 1 + MaxRun(cls, s, pos + 1, hi - 1)

RECURSIVE Run(_, _, _, _, _, _)
RECURSIVE Greedy(_, _, _, _, _, _, _)
\* Instruction k of re at position pos of s; cap holds the groups closed so
\* far and at the start position of the groups that are open.
Run(re, k, s, pos, cap, at) ==
    IF k > Len(re) THEN [matched |-> TRUE, cap |-> cap]
    ELSE LET i == re[k] IN
      CASE i.ins = "lit" ->
             IF starts_with(SubSeq(s, pos, Len(s)), i.text)
             THEN Run(re, k + 1, s, pos + Len(i.text), cap, at)
             ELSE NoMatch
        [] i.ins = "rep" ->
             Greedy(re, k, s, pos, cap, at,
                    MaxRun(i.cls, s, pos, IF i.unbounded THEN Len(s) ELSE i.hi))
        [] i.ins = "open" ->
             Run(re, k + 1, s, pos, cap, [at EXCEPT ![i.name] = pos])
        [] i.ins = "close" ->
             Run(re, k + 1, s, pos,
                 [cap EXCEPT ![i.name] = Some(SubSeq(s, at[i.name], pos - 1))], at)
        [] i.ins = "optopen" ->
             LET taken == Run(re, k + 1, s, pos, cap, [at EXCEPT ![i.name] = pos])
             IN  IF taken.matched THEN taken
                 ELSE Run(re, k + 1 + i.skip, s, pos, cap, at)
        [] i.ins = "end" ->
             IF pos = Len(s) + 1 THEN Run(re, k + 1, s, pos, cap, at) ELSE NoMatch

\* A greedy repetition: the longest run first, then shorter ones.
Greedy(re, k, s, pos, cap, at, n) ==
    IF n < re[k].lo THEN NoMatch
    ELSE LET r == Run(re, k + 1, s, pos + n, cap, at)
         IN  IF r.matched THEN r ELSE Greedy(re, k, s, pos, cap, at, n - 1)

GroupNames(re) == {re[k].name : k \in {j \in 1..Len(re) : re[j].ins \in {"open", "optopen"}}}

\* Regex::captures for a pattern that begins with ^: Some(groups) or None.
captures(re, s) ==
    LET r == Run(re, 1, s, 1, [n \in GroupNames(re) |-> None], [n \in GroupNames(re) |-> 0])
    IN  IF r.matched THEN Some(r.cap) ELSE None

\* Regex::is_match
is_match(re, s) == captures(re, s) # None

\* ( ?P<name> cls+ ) and ( ?P<name> cls+ )?
Field(name, cls) == <<Open(name), Many(cls, 1), Close(name)>>

OptField(name, cls) == <<OptOpen(name, 2), Many(cls, 1), Close(name)>>

---------------------------------------------------------------------------
(* The patterns.                                                           *)

\* The nine columns of a Rule line after the keyword.
RuleColumns ==
    Field("name", "\\S")       \o <<Many("\\s", 1)>>
    \o Field("from", "\\S")    \o <<Many("\\s", 1)>>
    \o Field("to", "\\S")      \o <<Many("\\s", 1)>>
    \o Field("type", "\\S")    \o <<Many("\\s", 1)>>
    \o Field("in", "\\S")      \o <<Many("\\s", 1)>>
    \o Field("on", "\\S")      \o <<Many("\\s", 1)>>
    \o Field("at", "\\S")      \o <<Many("\\s", 1)>>
    \o Field("save", "\\S")    \o <<Many("\\s", 1)>>
    \o Field("letters", "\\S")

\* A faulty RULE_LINE: the pattern closed with $, so that nothing may follow
\* the LETTERS column.
RULE_LINE_Anchored == <<Lit("Rule"), Many("\\s", 1)>> \o RuleColumns \o <<End>>

\* A faulty RULE_LINE: whitespace let in before the keyword.
RULE_LINE_Indented == <<Many("\\s", 0), Lit("Rule"), Many("\\s", 1)>> \o RuleColumns

RULE_LINE == <<Lit("Rule"), Many("\\s", 1)>> \o RuleColumns

DAY_FIELD ==
    Field("weekday", "\\w")
    \o <<Open("sign"), Rep("[<>]", 1, 1), Rep("=", 1, 1), Close("sign")>>
    \o Field("day", "\\d")
    \o <<End>>

HM_FIELD ==
    <<Open("sign"), Rep("-", 0, 1), Close("sign"),
      Open("hour"), Rep("\\d", 1, 2), Close("hour"), Rep(":", 1, 1),
      Open("minute"), Rep("\\d", 2, 2), Close("minute"),
      OptOpen("flag", 2), Rep("[wsugz]", 1, 1), Close("flag"),
      End>>

HMS_FIELD ==
    <<Open("sign"), Rep("-", 0, 1), Close("sign"),
      Open("hour"), Rep("\\d", 1, 2), Close("hour"), Rep(":", 1, 1),
      Open("minute"), Rep("\\d", 2, 2), Close("minute"), Rep(":", 1, 1),
      Open("second"), Rep("\\d", 2, 2), Close("second"),
      OptOpen("flag", 2), Rep("[wsugz]", 1, 1), Close("flag"),
      End>>

\* A faulty ZoneInfoColumns: the year group takes digits only, so that a
\* first optional column that is no number is left to the month group.
ZoneInfoColumns_DigitYear ==
    Field("gmtoff", "\\S")    \o <<Many("\\s", 1)>>
    \o Field("rulessave", "\\S") \o <<Many("\\s", 1)>>
    \o Field("format", "\\S") \o <<Many("\\s", 0)>>
    \o OptField("year", "\\d")   \o <<Many("\\s", 0)>>
    \o OptField("month", "\\S")  \o <<Many("\\s", 0)>>
    \o OptField("day", "\\S")    \o <<Many("\\s", 0)>>
    \o OptField("time", "\\S")

\* The columns ZONE_LINE and CONTINUATION_LINE share.
ZoneInfoColumns ==
    Field("gmtoff", "\\S")    \o <<Many("\\s", 1)>>
    \o Field("rulessave", "\\S") \o <<Many("\\s", 1)>>
    \o Field("format", "\\S") \o <<Many("\\s", 0)>>
    \o OptField("year", "\\S")   \o <<Many("\\s", 0)>>
    \o OptField("month", "\\S")  \o <<Many("\\s", 0)>>
    \o OptField("day", "\\S")    \o <<Many("\\s", 0)>>
    \o OptField("time", "\\S")

ZONE_LINE ==
    <<Lit("Zone"), Many("\\s", 1)>>
    \o Field("name", "[A-Za-z0-9/_+-]") \o <<Many("\\s", 1)>>
    \o ZoneInfoColumns

CONTINUATION_LINE == <<Many("\\s", 1)>> \o ZoneInfoColumns

\* A faulty LINK_LINE: the pattern closed with $, so that nothing may follow
\* the second name.
LINK_LINE_Anchored ==
    <<Lit("Link"), Many("\\s", 1)>>
    \o Field("target", "\\S") \o <<Many("\\s", 1)>>
    \o Field("name", "\\S") \o <<End>>

LINK_LINE ==
    <<Lit("Link"), Many("\\s", 1)>>
    \o Field("target", "\\S") \o <<Many("\\s", 1)>>
    \o Field("name", "\\S")

\* A faulty EMPTY_LINE: the leading \s* left out.
EMPTY_LINE_NoLeadingSpace ==
    <<OptOpen("comment", 3), Rep("#", 1, 1), Many(".", 0), Close("comment"), End>>

EMPTY_LINE ==
    <<Many("\\s", 0), OptOpen("comment", 3), Rep("#", 1, 1), Many(".", 0), Close("comment"), End>>

---------------------------------------------------------------------------
(* Integers: str::parse::<i8>() and str::parse::<i64>().                   *)

DigitVal(c) ==
    CASE c = "0" -> 0 [] c = "1" -> 1 [] c = "2" -> 2 [] c = "3" -> 3 [] c = "4" -> 4
      [] c = "5" -> 5 [] c = "6" -> 6 [] c = "7" -> 7 [] c = "8" -> 8 [] c = "9" -> 9

\* The value of a run of decimal digits (the model's inputs keep it below
\* 10^9, the digits' count being checked before the value is computed).
RECURSIVE Decimal(_)
Decimal(s) ==
    IF s = "" THEN 0
    ELSE 10 * Decimal(SubSeq(s, 1, Len(s) - 1)) + DigitVal(CharAt(s, Len(s)))

RECURSIVE StripZeros(_)
StripZeros(s) ==
    IF Len(s) > 1 /\ CharAt(s, 1) = "0" THEN StripZeros(SubSeq(s, 2, Len(s))) ELSE s

\* a <= b for digit runs of the same length
RECURSIVE DigitsLeq(_, _)
DigitsLeq(a, b) ==
    IF a = "" THEN TRUE
    ELSE IF DigitVal(CharAt(a, 1)) # DigitVal(CharAt(b, 1))
         THEN DigitVal(CharAt(a, 1)) < DigitVal(CharAt(b, 1))
    ELSE DigitsLeq(SubSeq(a, 2, Len(a)), SubSeq(b, 2, Len(b)))

\* The sign and the digits of an integer text: an optional '+' or '-', then
\* at least one digit and nothing else; FALSE when the text is no integer.
IsIntegerText(t) ==
    LET body == IF starts_with(t, "-") \/ starts_with(t, "+") THEN SubSeq(t, 2, Len(t)) ELSE t
    IN  body # "" /\ AllDigits(body)

IntegerDigits(t) ==
    StripZeros(IF starts_with(t, "-") \/ starts_with(t, "+") THEN SubSeq(t, 2, Len(t)) ELSE t)

\* str::parse::<i8>(): Ok(n) for -128 <= n <= 127, an error otherwise.
parse_i8(t) ==
    IF ~IsIntegerText(t) THEN ErrFail
    ELSE IF Len(IntegerDigits(t)) > 3 THEN ErrFail
    ELSE LET n == IF starts_with(t, "-") THEN 0 - Decimal(IntegerDigits(t))
                   ELSE Decimal(IntegerDigits(t))
         IN  IF -128 <= n /\ n <= 127 THEN Ok(n) ELSE ErrFail

\* str::parse::<i64>(), for the texts of digits alone that YearSpec hands it:
\* an error above i64::MAX.
parse_i64(t) ==
    IF ~IsIntegerText(t) THEN ErrFail
    ELSE IF Len(IntegerDigits(t)) > 19 THEN ErrFail
    ELSE IF Len(IntegerDigits(t)) = 19 /\ ~DigitsLeq(IntegerDigits(t), "9223372036854775807")
         THEN ErrFail
    ELSE Ok(IF starts_with(t, "-") THEN 0 - Decimal(IntegerDigits(t))
            ELSE Decimal(IntegerDigits(t)))

\* Result::unwrap (as at lines 645-646), followed by the rest of the
\* function, k.
Unwrap(r, k(_)) ==
    IF IsOk(r) THEN k(r.val) ELSE Panic("called Result::unwrap() on an Err value")

---------------------------------------------------------------------------
(* The field grammar.                                                      *)

Minimum == [year |-> "Minimum"]

Maximum == [year |-> "Maximum"]

Number(n) == [year |-> "Number", n |-> n]

\* impl FromStr for YearSpec
YearSpec_from_str(in) ==
    IF in = "min" \/ in = "minimum" THEN Ok(Minimum)
    ELSE IF in = "max" \/ in = "maximum" THEN Ok(Maximum)
    ELSE IF AllDigits(in) THEN Unwrap(parse_i64(in), LAMBDA n : Ok(Number(n)))
    ELSE ErrFail

MonthSpec(m) == [month |-> m]

\* impl FromStr for MonthSpec
MonthSpec_from_str(in) ==
    LET l == to_ascii_lowercase(in) IN
    CASE l \in {"jan", "january"}   -> Ok(MonthSpec("January"))
      [] l \in {"feb", "february"}  -> Ok(MonthSpec("February"))
      [] l \in {"mar", "march"}     -> Ok(MonthSpec("March"))
      [] l \in {"apr", "april"}     -> Ok(MonthSpec("April"))
      [] l \in {"may"}              -> Ok(MonthSpec("May"))
      [] l \in {"jun", "june"}      -> Ok(MonthSpec("June"))
      [] l \in {"jul", "july"}      -> Ok(MonthSpec("July"))
      [] l \in {"aug", "august"}    -> Ok(MonthSpec("August"))
      [] l \in {"sep", "september"} -> Ok(MonthSpec("September"))
      [] l \in {"oct", "october"}   -> Ok(MonthSpec("October"))
      [] l \in {"nov", "november"}  -> Ok(MonthSpec("November"))
      [] l \in {"dec", "december"}  -> Ok(MonthSpec("December"))
      [] OTHER                      -> ErrFail

WeekdaySpec(w) == [weekday |-> w]

\* impl FromStr for WeekdaySpec
WeekdaySpec_from_str(in) ==
    LET l == to_ascii_lowercase(in) IN
    CASE l \in {"mon", "monday"}    -> Ok(WeekdaySpec("Monday"))
      [] l \in {"tue", "tuesday"}   -> Ok(WeekdaySpec("Tuesday"))
      [] l \in {"wed", "wednesday"} -> Ok(WeekdaySpec("Wednesday"))
      [] l \in {"thu", "thursday"}  -> Ok(WeekdaySpec("Thursday"))
      [] l \in {"fri", "friday"}    -> Ok(WeekdaySpec("Friday"))
      [] l \in {"sat", "saturday"}  -> Ok(WeekdaySpec("Saturday"))
      [] l \in {"sun", "sunday"}    -> Ok(WeekdaySpec("Sunday"))
      [] OTHER                      -> ErrFail

Ordinal(d) == [day |-> "Ordinal", n |-> d]

Last(w) == [day |-> "Last", w |-> w]

LastOnOrBefore(w, d) == [day |-> "LastOnOrBefore", w |-> w, n |-> d]

FirstOnOrAfter(w, d) == [day |-> "FirstOnOrAfter", w |-> w, n |-> d]

\* impl FromStr for DaySpec
DaySpec_from_str(in) ==
    IF AllDigits(in) THEN Unwrap(parse_i8(in), LAMBDA n : Ok(Ordinal(n)))
    ELSE IF starts_with(in, "last")
    THEN Try(WeekdaySpec_from_str(SubSeq(in, 5, Len(in))), LAMBDA weekday : Ok(Last(weekday)))
    ELSE IfSome(captures(DAY_FIELD, in),
                LAMBDA caps :
                  Unwrap(WeekdaySpec_from_str(caps.weekday[1]), LAMBDA weekday :
                  Unwrap(parse_i8(caps.day[1]), LAMBDA day :
                    CASE caps.sign[1] = "<=" -> Ok(LastOnOrBefore(weekday, day))
                      [] caps.sign[1] = ">=" -> Ok(FirstOnOrAfter(weekday, day))
                      [] OTHER -> Panic("The regex only matches one of those two!"))),
                ErrFail)

Zero == [ts |-> "Zero"]

Hours(h) == [ts |-> "Hours", h |-> h]

HoursMinutes(h, m) == [ts |-> "HoursMinutes", h |-> h, m |-> m]

HoursMinutesSeconds(h, m, s) == [ts |-> "HoursMinutesSeconds", h |-> h, m |-> m, s |-> s]

TimeSpecAndType(spec, type) == [spec |-> spec, type |-> type]

\* A faulty parse_time_type: 'g' taken for wall-clock time.
parse_time_type_GreenwichWall(c) ==
    CASE c \in {"w", "g"} -> Some("Wall")
      [] c = "s"          -> Some("Standard")
      [] c \in {"u", "z"} -> Some("UTC")
      [] OTHER            -> None

\* fn parse_time_type
parse_time_type(c) ==
    CASE c = "w"               -> Some("Wall")
      [] c = "s"               -> Some("Standard")
      [] c \in {"u", "g", "z"} -> Some("UTC")
      [] OTHER                 -> None

\* caps.name("flag").and_then(|c| parse_time_type(&c.as_str()[0..1])).unwrap_or(TimeType::Wall)
FlagOf(caps) ==
    LET t == IF caps.flag = None THEN None ELSE parse_time_type(SubSeq(caps.flag[1], 1, 1))
    IN  IF t = None THEN "Wall" ELSE t[1]

\* A faulty SignOf: the sign group is not looked at.
SignOf_Ignored(caps) == 1

\* let sign: i8 = if caps.name("sign") == "-" { -1 } else { 1 }
SignOf(caps) == IF caps.sign[1] = "-" THEN -1 ELSE 1

\* impl FromStr for TimeSpecAndType
TimeSpecAndType_from_str(in) ==
    IF in = "-" THEN Ok(TimeSpecAndType(Zero, "Wall"))
    ELSE IF AllHyphenOrDigit(in)
    THEN Unwrap(parse_i8(in), LAMBDA h : Ok(TimeSpecAndType(Hours(h), "Wall")))
    ELSE IfSome(captures(HM_FIELD, in),
                LAMBDA caps :
                  Unwrap(parse_i8(caps.hour[1]), LAMBDA hour :
                  Unwrap(parse_i8(caps.minute[1]), LAMBDA minute :
                    Ok(TimeSpecAndType(
                         HoursMinutes(hour * SignOf(caps), minute * SignOf(caps)),
                         FlagOf(caps))))),
         IfSome(captures(HMS_FIELD, in),
                LAMBDA caps :
                  Unwrap(parse_i8(caps.hour[1]), LAMBDA hour :
                  Unwrap(parse_i8(caps.minute[1]), LAMBDA minute :
                  Unwrap(parse_i8(caps.second[1]), LAMBDA second :
                    Ok(TimeSpecAndType(
                         HoursMinutesSeconds(hour * SignOf(caps), minute * SignOf(caps),
                                             second * SignOf(caps)),
                         FlagOf(caps)))))),
         ErrFail))

\* impl FromStr for TimeSpec
TimeSpec_from_str(in) ==
    Try(TimeSpecAndType_from_str(in),
        LAMBDA t : IF t.type = "Wall" THEN Ok(t.spec) ELSE ErrFail)

NoSaving == [saving |-> "NoSaving"]

OneOff(t) == [saving |-> "OneOff", time |-> t]

Multiple(name) == [saving |-> "Multiple", name |-> name]

\* Saving::from_str
Saving_from_str(in) ==
    IF in = "-" THEN Ok(NoSaving)
    ELSE IF AllNameChars(in) THEN Ok(Multiple(in))
    ELSE IF is_match(HM_FIELD, in)
    THEN Try(TimeSpec_from_str(in), LAMBDA time : Ok(OneOff(time)))
    ELSE ErrFail

---------------------------------------------------------------------------
(* The record parsers and the line classifier.                             *)

UntilYear(y) == [until |-> "UntilYear", year |-> y]

UntilMonth(y, m) == [until |-> "UntilMonth", year |-> y, month |-> m]

UntilDay(y, m, d) == [until |-> "UntilDay", year |-> y, month |-> m, day |-> d]

UntilTime(y, m, d, t) == [until |-> "UntilTime", year |-> y, month |-> m, day |-> d, time |-> t]

\* A faulty MatchArm: the year-and-month arm tried before the two longer ones.
MatchArm_MonthFirst(y, m, d, t) ==
    IF y # None /\ m # None THEN "UntilMonth"
    ELSE IF y # None /\ m # None /\ d # None /\ t # None THEN "UntilTime"
    ELSE IF y # None /\ m # None /\ d # None THEN "UntilDay"
    ELSE IF y # None THEN "UntilYear"
    ELSE IF y = None /\ m = None /\ d = None /\ t = None THEN "None"
    ELSE "unreachable"

\* The arm that the match of ZoneInfo::from_captures selects for the four
\* optional groups, the arms tried in the order of the source.
MatchArm(y, m, d, t) ==
    IF y # None /\ m # None /\ d # None /\ t # None THEN "UntilTime"
    ELSE IF y # None /\ m # None /\ d # None THEN "UntilDay"
    ELSE IF y # None /\ m # None THEN "UntilMonth"
    ELSE IF y # None THEN "UntilYear"
    ELSE IF y = None /\ m = None /\ d = None /\ t = None THEN "None"
    ELSE "unreachable"

\* The value of that match: an arm's fields are parsed left to right, each
\* under try!.
ChangeTimeOf(caps) ==
    LET arm == MatchArm(caps.year, caps.month, caps.day, caps.time)
    IN  CASE arm = "UntilTime" ->
               Try(YearSpec_from_str(caps.year[1]), LAMBDA y :
               Try(MonthSpec_from_str(caps.month[1]), LAMBDA m :
               Try(DaySpec_from_str(caps.day[1]), LAMBDA d :
               Try(TimeSpecAndType_from_str(caps.time[1]), LAMBDA t :
                 Ok(Some(UntilTime(y, m, d, t)))))))
          [] arm = "UntilDay" ->
               Try(YearSpec_from_str(caps.year[1]), LAMBDA y :
               Try(MonthSpec_from_str(caps.month[1]), LAMBDA m :
               Try(DaySpec_from_str(caps.day[1]), LAMBDA d :
                 Ok(Some(UntilDay(y, m, d))))))
          [] arm = "UntilMonth" ->
               Try(YearSpec_from_str(caps.year[1]), LAMBDA y :
               Try(MonthSpec_from_str(caps.month[1]), LAMBDA m :
                 Ok(Some(UntilMonth(y, m)))))
          [] arm = "UntilYear" ->
               Try(YearSpec_from_str(caps.year[1]), LAMBDA y : Ok(Some(UntilYear(y))))
          [] arm = "None" -> Ok(None)
          [] OTHER -> Panic("Out-of-order capturing groups!")

\* ZoneInfo::from_captures
ZoneInfo_from_captures(caps) ==
    Try(TimeSpec_from_str(caps.gmtoff[1]), LAMBDA utc_offset :
    Try(Saving_from_str(caps.rulessave[1]), LAMBDA saving :
    Try(ChangeTimeOf(caps), LAMBDA time :
      Ok([utc_offset |-> utc_offset, saving |-> saving,
          format |-> caps.format[1], time |-> time]))))

\* Zone::from_str
Zone_from_str(in) ==
    IfSome(captures(ZONE_LINE, in),
           LAMBDA caps :
             Try(ZoneInfo_from_captures(caps), LAMBDA info :
               Ok([name |-> caps.name[1], info |-> info])),
           ErrFail)

\* A faulty ToYearOf: the FROM column read in place of the TO column.
ToYearOf_From(caps) ==
    IF caps.from[1] = "only" THEN Ok(None)
    ELSE Try(YearSpec_from_str(caps.from[1]), LAMBDA to : Ok(Some(to)))

\* The end year of Rule::from_str: "only" is None, anything else a YearSpec.
ToYearOf(caps) ==
    IF caps.to[1] = "only" THEN Ok(None)
    ELSE Try(YearSpec_from_str(caps.to[1]), LAMBDA to : Ok(Some(to)))

\* The type column of Rule::from_str: "-" or U+2010, or the line fails.
TypeOf(caps) ==
    IF caps.type[1] # "-" /\ caps.type[1] # HYPHEN_2010 THEN ErrFail ELSE Ok(caps.type[1])

\* Rule::from_str
Rule_from_str(in) ==
    IfSome(captures(RULE_LINE, in),
           LAMBDA caps :
             Try(YearSpec_from_str(caps.from[1]), LAMBDA from_year :
             Try(ToYearOf(caps), LAMBDA to_year :
             Try(TypeOf(caps), LAMBDA t :
             Try(MonthSpec_from_str(caps.in[1]), LAMBDA month :
             Try(DaySpec_from_str(caps.on[1]), LAMBDA day :
             Try(TimeSpecAndType_from_str(caps.at[1]), LAMBDA time :
             Try(TimeSpec_from_str(caps.save[1]), LAMBDA time_to_add :
               Ok([name |-> caps.name[1], from_year |-> from_year, to_year |-> to_year,
                   month |-> month, day |-> day, time |-> time,
                   time_to_add |-> time_to_add,
                   letters |-> IF caps.letters[1] = "-" THEN None
                               ELSE Some(caps.letters[1])])))))))),
           ErrFail)

\* Link::from_str
Link_from_str(in) ==
    IfSome(captures(LINK_LINE, in),
           LAMBDA caps : Ok([existing |-> caps.target[1], new |-> caps.name[1]]),
           ErrFail)

Space == [line |-> "Space"]

LineZone(z) == [line |-> "Zone", zone |-> z]

Continuation(i) == [line |-> "Continuation", info |-> i]

LineRule(r) == [line |-> "Rule", rule |-> r]

LineLink(l) == [line |-> "Link", link |-> l]

\* A faulty Line::from_str: the continuation shape tried before the blank
\* line.
Line_from_str_ContinuationFirst(in) ==
    IfSome(captures(CONTINUATION_LINE, in),
           LAMBDA caps :
             Try(ZoneInfo_from_captures(caps), LAMBDA info : Ok(Continuation(info))),
    IF is_match(EMPTY_LINE, in) THEN Ok(Space)
    ELSE IfOk(Zone_from_str(in), LAMBDA zone : Ok(LineZone(zone)),
         IfOk(Rule_from_str(in), LAMBDA rule : Ok(LineRule(rule)),
         IfOk(Link_from_str(in), LAMBDA link : Ok(LineLink(link)),
         ErrFail))))

\* Line::from_str
Line_from_str(in) ==
    IF is_match(EMPTY_LINE, in) THEN Ok(Space)
    ELSE IfOk(Zone_from_str(in), LAMBDA zone : Ok(LineZone(zone)),
         IfSome(captures(CONTINUATION_LINE, in),
                LAMBDA caps :
                  Try(ZoneInfo_from_captures(caps), LAMBDA info : Ok(Continuation(info))),
         IfOk(Rule_from_str(in), LAMBDA rule : Ok(LineRule(rule)),
         IfOk(Link_from_str(in), LAMBDA link : Ok(LineLink(link)),
         ErrFail))))

---------------------------------------------------------------------------
(* The inputs: bounded sets of field texts and of lines.                   *)

\* The longest run of whitespace the generated lines use between fields,
\* before a continuation's first field and in blank lines.
MaxWs == 2

\* The most tokens a generated line carries after its last column.
MaxExtra == 2

WsChars == {" ", "\t"}

\* The runs of exactly n whitespace characters.
RECURSIVE WsRuns(_)
WsRuns(n) == IF n = 0 THEN {""} ELSE {w \o c : w \in WsRuns(n - 1), c \in WsChars}

WsBetween(lo, hi) == UNION {WsRuns(n) : n \in lo..hi}

RECURSIVE Join(_, _)
Join(toks, sep) ==
    IF toks = <<>> THEN ""
    ELSE IF Len(toks) = 1 THEN toks[1]
    ELSE toks[1] \o sep \o Join(Tail(toks), sep)

\* The sequences of exactly n tokens of S.
RECURSIVE TokenSeqs(_, _)
TokenSeqs(S, n) == IF n = 0 THEN {<<>>} ELSE {Append(q, t) : q \in TokenSeqs(S, n - 1), t \in S}

\* h:mm and h:mm:ss texts, with and without the sign and the flag.
HourTexts == {"0", "1", "9", "00", "09", "12", "24", "99"}

MinuteTexts == {"00", "01", "30", "59", "99"}

SecondTexts == {"00", "15", "59"}

FlagTexts == {"", "w", "s", "u", "g", "z", "x", "W"}

HmTexts == {sg \o h \o ":" \o m : sg \in {"", "-"}, h \in HourTexts, m \in MinuteTexts}

HmsTexts == {t \o ":" \o sec : t \in HmTexts, sec \in SecondTexts}

FlaggedTexts == {t \o f : t \in {"2:00", "-1:30", "0:00:00", "-0:01:15"}, f \in FlagTexts}

\* Texts that are no h:mm[:ss]: hours alone, the hyphen, and malformed ones.
OtherTimeTexts ==
    {"-", "0", "1", "24", "-5", "127", "128", "-128", "-129", "200", "1-2", "--", "-1-",
     "1:0", "1:000", "123:00", "1:00:0", "1:00:00:00", ":30", "1:", "+1:00", "x", "1:00ws"}

TimeTexts == HmTexts \cup HmsTexts \cup FlaggedTexts \cup OtherTimeTexts

SavingTexts ==
    {"-", "Aus", "C-Eur", "US", "_", "--", "a_b", "E1", "%",
     "1", "0", "1:00", "0:30", "-1:00", "0:20:00", "1:00:00", "1:00s", "1:00w", "2:00u", "1-2"}

YearTexts ==
    {"1971", "0", "0099", "2037", "min", "minimum", "max", "maximum", "Min", "only", "x",
     "-1", "19x", "9223372036854775808", "99999999999999999999"}

MonthTexts ==
    {"Jan", "feb", "MAR", "April", "may", "Jun", "JULY", "aug", "Sep", "october", "Nov",
     "December", "Febtober", "Sept", "10", "x"}

WeekdayTexts ==
    {"Mon", "tue", "WED", "Thursday", "fri", "Sat", "sunday", "Foo", "Su", "1"}

DayTexts ==
    {"1", "10", "31", "0", "127", "128", "300", "lastSun", "lastfriday", "lastFoo", "last",
     "Sun>=1", "fri<=13", "Sat>=25", "Foo>=1", "Foo<=2", "Sun>=200", "Sun>1", "Sun=>1",
     "Sun>=", ">=1", "lastSun>=1", "x"}

\* A Zone or Continuation line's columns after the name: a text that parses
\* in every column, and the texts each column is varied over.
ZoneBase == <<"9:30", "Aus", "AC%sT", "1971", "Oct", "31", "2:00:00">>

ZoneColumnTexts ==
    << {"9:30", "-0:01:15", "1", "-", "1:00s", "1-2", "x"},
       {"-", "Aus", "1:00", "1", "0:20:00", "1:00s", "%"},
       {"AC%sT", "LMT"},
       {"1971", "max", "minimum", "x", "99999999999999999999"},
       {"Oct", "december", "Febtober", "31"},
       {"31", "lastSun", "Sun>=1", "fri<=13", "Foo>=1", "300", "lastFoo"},
       {"2:00:00", "0:00s", "1:00u", "-", "24", "1-2", "2:00x"} >>

\* Columns that all parse, for each number k of columns after FORMAT.
ZoneGoodTexts ==
    << {"9:30", "-0:01:15"}, {"-", "Aus"}, {"LMT"},
       {"1971", "max"}, {"Oct", "december"}, {"31", "lastSun", "Sun>=1"}, {"2:00:00", "0:00s"} >>

RECURSIVE Columns(_, _)
Columns(texts, n) ==
    IF n = 0 THEN {<<>>} ELSE {Append(q, t) : q \in Columns(texts, n - 1), t \in texts[n]}

ExtraTokens == {"#", "x", "1972"}

\* What may follow a line's last column: nothing, whitespace, a comment
\* after whitespace, or further tokens.
Trailers ==
    {"", " ", " #with a comment after", "   # comment ## comment", "\t#", "#c"}
    \cup {" " \o Join(q, " ") : q \in UNION {TokenSeqs(ExtraTokens, n) : n \in 1..MaxExtra}}

\* The subsequences of <<year, month, day, time>>, each column one of two texts.
RECURSIVE Subsequences(_)
Subsequences(cols) ==
    IF cols = <<>> THEN {<<>>}
    ELSE LET rest == Subsequences(Tail(cols))
         IN  rest \cup {<<t>> \o q : t \in Head(cols), q \in rest}

OptionalColumns == <<{"1971", "max"}, {"Oct"}, {"31", "lastSun"}, {"2:00:00", "24"}>>

OptionalColumnChoices == Subsequences(OptionalColumns)

ZoneInfoTexts ==
    \* every combination of texts that parse, single spaces between
    {Join(q, " ") : q \in UNION {Columns(ZoneGoodTexts, 3 + k) : k \in 0..4}}
    \* one column varied, for every number of columns
    \cup {Join([SubSeq(ZoneBase, 1, 3 + k) EXCEPT ![c] = t], " ") :
            <<k, c, t>> \in {x \in (0..4) \X (1..7) \X UNION {ZoneColumnTexts[c] : c \in 1..7} :
                               x[2] <= 3 + x[1] /\ x[3] \in ZoneColumnTexts[x[2]]}}
    \* some of the four optional columns left out, the others in order
    \cup {Join(SubSeq(ZoneBase, 1, 3) \o q, " ") : q \in OptionalColumnChoices}
    \* every separator and every trailer, for every number of columns
    \cup {Join(SubSeq(ZoneBase, 1, 3 + k), sep) \o tr :
            k \in 0..4, sep \in WsBetween(1, MaxWs), tr \in Trailers}

ZoneNames == {"Europe/London", "Asia/Ust-Nera", "Etc/GMT+1", "A%B", "EST"}

ZoneLines ==
    {"Zone " \o n \o " " \o i : n \in {"Europe/London"}, i \in ZoneInfoTexts}
    \cup {kw \o sep \o n \o sep \o Join(SubSeq(ZoneBase, 1, 3 + k), " ") :
            kw \in {"Zone", "zone", "Zones", " Zone"}, sep \in WsBetween(0, MaxWs),
            n \in ZoneNames, k \in {0, 4}}

ContinuationLines ==
    {" " \o i : i \in ZoneInfoTexts}
    \cup {lead \o Join(SubSeq(ZoneBase, 1, 3 + k), " ") : lead \in WsBetween(0, MaxWs), k \in 0..4}

RuleBase == <<"US", "1967", "1973", "-", "Apr", "lastSun", "2:00", "1:00", "D">>

RuleColumnTexts ==
    << {"US", "EU", "#"},
       YearTexts,
       YearTexts,
       {"-", HYPHEN_2010, "HEY", "--", "only"},
       MonthTexts,
       DayTexts,
       {"2:00", "2:00s", "1:00u", "0", "-", "24:00", "1-2", "2:00x", "2:00:00g"},
       {"1:00", "0", "-", "0:30", "-1:00", "1:00s", "1:00:00", "1-2", "x"},
       {"D", "S", "-", "#"} >>

RuleLines ==
    \* one column varied
    {"Rule " \o Join([RuleBase EXCEPT ![c] = t], " ") :
        <<c, t>> \in {x \in (1..9) \X UNION {RuleColumnTexts[c] : c \in 1..9} :
                        x[2] \in RuleColumnTexts[x[1]]}}
    \* FROM and TO varied together
    \cup {"Rule " \o Join([RuleBase EXCEPT ![2] = f, ![3] = t], " ") :
            f \in {"1967", "min", "x"}, t \in YearTexts}
    \* every number of fields, every separator
    \cup {kw \o sep \o Join(SubSeq(RuleBase, 1, n) \o q, sep) :
            kw \in {"Rule"}, sep \in WsBetween(1, MaxWs), n \in 0..9, q \in {<<>>}}
    \cup {"Rule" \o sep \o Join(RuleBase, sep) \o tr : sep \in WsBetween(1, MaxWs), tr \in Trailers}
    \cup {kw \o Join(RuleBase, " ") : kw \in {"Rule", "rule ", " Rule ", "Rules ", "Rule\n"}}

LinkTokens ==
    {<<>>, <<"Europe/Istanbul">>, <<"Europe/Istanbul", "Asia/Istanbul">>, <<"a", "#">>}

LinkLines ==
    {kw \o " " \o Join(q, " ") \o tr :
        kw \in {"Link", "link", " Link"}, q \in LinkTokens, tr \in Trailers}
    \cup {"Link" \o sep \o Join(q, sep) \o tr :
            sep \in WsBetween(0, MaxWs), q \in LinkTokens, tr \in {"", "\t#", " x"}}

Comments == {"", "#", "# this is a comment", "# so is this ## ", "##", "#\t# "}

BlankLines ==
    {ws \o c : ws \in WsBetween(0, MaxWs) \cup {"\n", " \n"}, c \in Comments}

NonBlankLines ==
    {ws \o t \o c : ws \in WsBetween(0, MaxWs), t \in {"this is not a ", "GOLB", "x", "-"},
                    c \in Comments}
    \cup {"# a\nb", " #\n", "#\n#"}

Lines ==
    BlankLines \cup NonBlankLines \cup ZoneLines \cup ContinuationLines
    \cup RuleLines \cup LinkLines

---------------------------------------------------------------------------
(* The state machine: a caller hands one text to one of the parsing        *)
(* functions and gets its outcome; it discards the outcome before the next *)
(* call.                                                                   *)

Init == op = "none" /\ input = "" /\ result = None

LineFromStr ==
    /\ op = "none"
    /\ \E l \in Lines :
         /\ op' = "Line::from_str"
         /\ input' = l
         /\ result' = Line_from_str(l)

ZoneFromStr ==
    /\ op = "none"
    /\ \E l \in ZoneLines :
         /\ op' = "Zone::from_str"
         /\ input' = l
         /\ result' = Zone_from_str(l)

RuleFromStr ==
    /\ op = "none"
    /\ \E l \in RuleLines :
         /\ op' = "Rule::from_str"
         /\ input' = l
         /\ result' = Rule_from_str(l)

LinkFromStr ==
    /\ op = "none"
    /\ \E l \in LinkLines :
         /\ op' = "Link::from_str"
         /\ input' = l
         /\ result' = Link_from_str(l)

TimeSpecAndTypeFromStr ==
    /\ op = "none"
    /\ \E t \in TimeTexts :
         /\ op' = "TimeSpecAndType::from_str"
         /\ input' = t
         /\ result' = TimeSpecAndType_from_str(t)

TimeSpecFromStr ==
    /\ op = "none"
    /\ \E t \in TimeTexts :
         /\ op' = "TimeSpec::from_str"
         /\ input' = t
         /\ result' = TimeSpec_from_str(t)

SavingFromStr ==
    /\ op = "none"
    /\ \E t \in SavingTexts :
         /\ op' = "Saving::from_str"
         /\ input' = t
         /\ result' = Saving_from_str(t)

YearSpecFromStr ==
    /\ op = "none"
    /\ \E t \in YearTexts :
         /\ op' = "YearSpec::from_str"
         /\ input' = t
         /\ result' = YearSpec_from_str(t)

MonthSpecFromStr ==
    /\ op = "none"
    /\ \E t \in MonthTexts :
         /\ op' = "MonthSpec::from_str"
         /\ input' = t
         /\ result' = MonthSpec_from_str(t)

WeekdaySpecFromStr ==
    /\ op = "none"
    /\ \E t \in WeekdayTexts :
         /\ op' = "WeekdaySpec::from_str"
         /\ input' = t
         /\ result' = WeekdaySpec_from_str(t)

DaySpecFromStr ==
    /\ op = "none"
    /\ \E t \in DayTexts :
         /\ op' = "DaySpec::from_str"
         /\ input' = t
         /\ result' = DaySpec_from_str(t)

\* The caller drops the record (or the error) it was given.
Discard ==
    /\ op # "none"
    /\ op' = "none"
    /\ input' = ""
    /\ result' = None

Next ==
    \/ LineFromStr
    \/ ZoneFromStr
    \/ RuleFromStr
    \/ LinkFromStr
    \/ TimeSpecAndTypeFromStr
    \/ TimeSpecFromStr
    \/ SavingFromStr
    \/ YearSpecFromStr
    \/ MonthSpecFromStr
    \/ WeekdaySpecFromStr
    \/ DaySpecFromStr
    \/ Discard

Spec == Init /\ [][Next]_vars

---------------------------------------------------------------------------
(* The calendar of the datetime crate, which the resolution functions call: *)
(* the proleptic Gregorian calendar, with 1970-01-01 a Thursday.            *)

Months ==
    <<"January", "February", "March", "April", "May", "June", "July", "August",
      "September", "October", "November", "December">>

Weekdays ==
    <<"Monday", "Tuesday", "Wednesday", "Thursday", "Friday", "Saturday", "Sunday">>

MonthNumber(m) == CHOOSE i \in 1..12 : Months[i] = m

is_leap_year(y) == y % 4 = 0 /\ (y % 100 # 0 \/ y % 400 = 0)

days_in_month(y, m) ==
    CASE m = "February"                                 -> IF is_leap_year(y) THEN 29 ELSE 28
      [] m \in {"April", "June", "September", "November"} -> 30
      [] OTHER                                          -> 31

\* The days from 1970-01-01 to the date, negative before it.
days_since_epoch(y, m, d) ==
    LET mn  == MonthNumber(m)
        y1  == IF mn <= 2 THEN y - 1 ELSE y
        era == y1 \div 400
        yoe == y1 - era * 400
        doy == (153 * (IF mn > 2 THEN mn - 3 ELSE mn + 9) + 2) \div 5 + d - 1
        doe == yoe * 365 + yoe \div 4 - yoe \div 100 + doy
    IN  era * 146097 + doe - 719468

LocalDate(y, m, d) == [year |-> y, month |-> m, day |-> d]

\* DatePiece::weekday
weekday(date) ==
    Weekdays[((days_since_epoch(date.year, date.month, date.day) + 3) % 7) + 1]

ErrOutOfRange == [tag |-> "Err", err |-> "OutOfRange"]

\* LocalDate::ymd: a date, or an error for a day the month does not have.
LocalDate_ymd(y, m, d) ==
    IF d >= 1 /\ d <= days_in_month(y, m) THEN Ok(LocalDate(y, m, d)) ELSE ErrOutOfRange

LocalTime(h, m, s) == [hour |-> h, minute |-> m, second |-> s]

\* LocalTime::midnight
midnight == LocalTime(0, 0, 0)

\* LocalTime::hms: a time of day, or an error for a field out of its range.
LocalTime_hms(h, m, s) ==
    IF h \in 0..23 /\ m \in 0..59 /\ s \in 0..59 THEN Ok(LocalTime(h, m, s))
    ELSE ErrOutOfRange

\* Year(year).month(month).days(..): the dates of the month, in order.
days(y, m) == [d \in 1..days_in_month(y, m) |-> LocalDate(y, m, d)]

\* Iterator::rev
rev(s) == [i \in 1..Len(s) |-> s[Len(s) + 1 - i]]

\* Iterator::skip
skip(s, n) == IF n >= Len(s) THEN <<>> ELSE SubSeq(s, n + 1, Len(s))

\* LocalDateTime::new(date, time).to_instant().seconds()
seconds(date, time) ==
    days_since_epoch(date.year, date.month, date.day) * 86400
      + time.hour * 3600 + time.minute * 60 + time.second

---------------------------------------------------------------------------
(* The resolution functions.                                               *)

\* A faulty find_weekday: the last match of the iterator, not the first.
find_weekday_LastMatch(w, iterator) ==
    LET found == SelectSeq(iterator, LAMBDA date : weekday(date) = w.weekday)
    IN  IF found = <<>> THEN Panic("Failed to find weekday") ELSE Ok(found[Len(found)])

\* DaySpec::find_weekday: the first date of the iterator with the weekday;
\* .expect panics when there is none.
find_weekday(w, iterator) ==
    LET found == SelectSeq(iterator, LAMBDA date : weekday(date) = w.weekday)
    IN  IF found = <<>> THEN Panic("Failed to find weekday") ELSE Ok(found[1])

\* day as usize for a negative i8 day, less one: 2^64 - 1 + day, a count
\* past the end of every month; the largest integer stands for it.
usize_wrapped == 2147483647

\* DaySpec::to_concrete_date; Ok(date) is the date returned. The subtraction
\* day as usize - 1 of a zero day panics in a build with overflow checks
\* and wraps in one without.
to_concrete_date(self, year, month, overflow_checks) ==
    CASE self.day = "Ordinal" ->
           Unwrap(LocalDate_ymd(year, month, self.n), LAMBDA date : Ok(date))
      [] self.day = "Last" ->
           find_weekday(self.w, rev(days(year, month)))
      [] self.day = "LastOnOrBefore" ->
           find_weekday(self.w,
                        SelectSeq(rev(days(year, month)), LAMBDA d : d.day < self.n))
      [] self.day = "FirstOnOrAfter" ->
           IF self.n = 0 /\ overflow_checks
           THEN Panic("attempt to subtract with overflow")
           ELSE find_weekday(self.w,
                             skip(days(year, month),
                                  IF self.n >= 1 THEN self.n - 1 ELSE usize_wrapped))

\* A faulty local_time: an hour added for a time in standard time.
local_time_TypeApplied(time) ==
    CASE time.spec.ts = "Zero" ->
           Ok(IF time.type = "Standard" THEN LocalTime(1, 0, 0) ELSE midnight)
      [] time.spec.ts = "Hours" -> LocalTime_hms(time.spec.h, 0, 0)
      [] time.spec.ts = "HoursMinutes" -> LocalTime_hms(time.spec.h, time.spec.m, 0)
      [] time.spec.ts = "HoursMinutesSeconds" ->
           LocalTime_hms(time.spec.h, time.spec.m, time.spec.s)

\* let local_time = match time.0 { ... } of ChangeTime::to_timestamp, before
\* its unwrap.
local_time(time) ==
    CASE time.spec.ts = "Zero" -> Ok(midnight)
      [] time.spec.ts = "Hours" -> LocalTime_hms(time.spec.h, 0, 0)
      [] time.spec.ts = "HoursMinutes" -> LocalTime_hms(time.spec.h, time.spec.m, 0)
      [] time.spec.ts = "HoursMinutesSeconds" ->
           LocalTime_hms(time.spec.h, time.spec.m, time.spec.s)

\* ChangeTime::to_timestamp; Ok(n) is the number returned. Every arm asks
\* for a Number year, and any other year falls to unreachable!.
to_timestamp(self, overflow_checks) ==
    CASE self.year.year # "Number" -> Panic("internal error: entered unreachable code")
      [] self.year.year = "Number" /\ self.until = "UntilYear" ->
           Unwrap(LocalDate_ymd(self.year.n, "January", 1),
                  LAMBDA date : Ok(seconds(date, midnight)))
      [] self.year.year = "Number" /\ self.until = "UntilMonth" ->
           Unwrap(LocalDate_ymd(self.year.n, self.month.month, 1),
                  LAMBDA date : Ok(seconds(date, midnight)))
      [] self.year.year = "Number" /\ self.until = "UntilDay" ->
           Try(to_concrete_date(self.day, self.year.n, self.month.month, overflow_checks),
               LAMBDA date : Ok(seconds(date, midnight)))
      [] self.year.year = "Number" /\ self.until = "UntilTime" ->
           Unwrap(local_time(self.time), LAMBDA t :
           Try(to_concrete_date(self.day, self.year.n, self.month.month, overflow_checks),
               LAMBDA date : Ok(seconds(date, t))))

---------------------------------------------------------------------------
(* The inputs of the resolution functions.                                 *)

\* The largest day number handed to to_concrete_date, one past the longest
\* month.
MaxDay == 32

\* Day numbers: negative, zero, every day of a month, and past its end.
DayNumbers == -1..MaxDay

\* A common year, a leap year, a century that is no leap year and one that is.
ResolveYears == {1970, 1972, 1900, 2000}

WeekdaySpecs == {WeekdaySpec(Weekdays[i]) : i \in 1..7}

MonthNames == {Months[i] : i \in 1..12}

DaySpecs ==
    {Ordinal(n) : n \in DayNumbers}
    \cup {Last(w) : w \in WeekdaySpecs}
    \cup {LastOnOrBefore(w, n) : w \in WeekdaySpecs, n \in DayNumbers}
    \cup {FirstOnOrAfter(w, n) : w \in WeekdaySpecs, n \in DayNumbers}

\* UNTIL columns of a Zone line, from one column to four.
UntilTexts ==
    {"min", "minimum", "max", "maximum", "1969", "1970", "1972", "2037",
     "min Feb", "maximum Dec", "1970 Jan", "1970 Feb", "1972 Feb", "1972 Mar", "2000 Dec",
     "min Feb 1", "max Jun lastSun", "1970 Jan 1", "1970 Jan 0", "1970 Feb 29",
     "1972 Feb 29", "1972 Feb lastSun", "1970 Jan Sun>=30", "1970 Jan Sun<=11",
     "1970 Jan Sun<=1", "1971 Oct 31", "2000 Mar Sun>=8",
     "min Feb 1 0", "maximum Jun lastSun 2:00s", "1971 Oct 31 2:00:00", "1970 Jan 1 -",
     "1970 Jan 1 0", "1972 Feb 29 23:59:59", "1970 Jan 1 24:00", "1970 Jan 1 -1:00",
     "1972 Mar lastSun 1:00u", "1970 Jan 0 2:00", "2000 Mar Sun>=8 2", "1970 Feb 29 0:00s"}

\* The ChangeTime that Zone::from_str gives a zone with these UNTIL columns.
UntilOf(u) == Zone_from_str("Zone A 1:00 - LMT " \o u).val.info.time[1]

\* A TimeSpecAndType of every time type, for a midnight and for two other
\* times.
ResolveTimes ==
    {TimeSpecAndType(s, t) : s \in {Zero, Hours(0), HoursMinutes(2, 30)},
                             t \in {"Wall", "Standard", "UTC"}}

\* ChangeTimes of the four shapes: the parsed ones, and for every month of
\* three years the start of the month in each shape.
ChangeTimes ==
    {UntilOf(u) : u \in UntilTexts}
    \cup {UntilYear(Number(y)) : y \in {1969, 1970, 1972}}
    \cup {UntilMonth(Number(y), MonthSpec(m)) : y \in {1969, 1970, 1972}, m \in MonthNames}
    \cup {UntilDay(Number(y), MonthSpec(m), d) :
            y \in {1969, 1970, 1972}, m \in MonthNames,
            d \in {Ordinal(1), Ordinal(31), Last(WeekdaySpec("Sunday")),
                   FirstOnOrAfter(WeekdaySpec("Monday"), 8)}}
    \cup {UntilTime(Number(y), MonthSpec(m), d, t) :
            y \in {1969, 1970, 1972}, m \in MonthNames,
            d \in {Ordinal(1), Ordinal(31), Last(WeekdaySpec("Sunday")),
                   FirstOnOrAfter(WeekdaySpec("Monday"), 8)},
            t \in ResolveTimes}

---------------------------------------------------------------------------
(* The second state machine: a caller that holds a parsed DaySpec or       *)
(* ChangeTime resolves it, in a build with or without overflow checks, and *)
(* discards the outcome before the next call.                              *)

DaySpecToConcreteDate ==
    /\ op = "none"
    /\ \E self \in DaySpecs, year \in ResolveYears, month \in MonthNames,
          overflow_checks \in BOOLEAN :
         /\ op' = "DaySpec::to_concrete_date"
         /\ input' = [self |-> self, year |-> year, month |-> month,
                      overflow_checks |-> overflow_checks]
         /\ result' = to_concrete_date(self, year, month, overflow_checks)

ChangeTimeToTimestamp ==
    /\ op = "none"
    /\ \E self \in ChangeTimes, overflow_checks \in BOOLEAN :
         /\ op' = "ChangeTime::to_timestamp"
         /\ input' = [self |-> self, overflow_checks |-> overflow_checks]
         /\ result' = to_timestamp(self, overflow_checks)

NextResolve ==
    \/ DaySpecToConcreteDate
    \/ ChangeTimeToTimestamp
    \/ Discard

SpecResolve == Init /\ [][NextResolve]_vars

---------------------------------------------------------------------------
(* What the properties speak of: the whitespace-separated tokens of a      *)
(* line, and the record a call returned.                                   *)

\* The length of the token that starts s, a text that begins with no
\* whitespace.
TokenLen(s) ==
    CHOOSE n \in 1..Len(s) :
        /\ \A i \in 1..n : CharAt(s, i) \notin Whitespace
        /\ (n = Len(s) \/ CharAt(s, n + 1) \in Whitespace)

\* The whitespace-separated tokens of s, in order.
RECURSIVE Words(_)
Words(s) ==
    IF s = "" THEN <<>>
    ELSE IF CharAt(s, 1) \in Whitespace THEN Words(SubSeq(s, 2, Len(s)))
    ELSE <<SubSeq(s, 1, TokenLen(s))>> \o Words(SubSeq(s, TokenLen(s) + 1, Len(s)))

\* Line::from_str returned the variant v.
IsLine(v) == op = "Line::from_str" /\ IsOk(result) /\ result.val.line = v

\* A Rule record was returned, by Rule::from_str or inside a Line.
AcceptedRule == (op = "Rule::from_str" /\ IsOk(result)) \/ IsLine("Rule")

TheRule == IF op = "Rule::from_str" THEN result.val ELSE result.val.rule

\* A ZoneInfo was returned: inside a Zone, or as a Continuation.
AcceptedZone == (op = "Zone::from_str" /\ IsOk(result)) \/ IsLine("Zone")

AcceptedZoneInfo == AcceptedZone \/ IsLine("Continuation")

TheZoneInfo ==
    IF op = "Zone::from_str" THEN result.val.info
    ELSE IF result.val.line = "Zone" THEN result.val.zone.info
    ELSE result.val.info

\* The tokens that follow FORMAT: a Zone line has five tokens up to FORMAT
\* (keyword, name, GMTOFF, RULES/SAVE, FORMAT), a continuation three.
OptionalTokens ==
    LET w == Words(input)
    IN  IF AcceptedZone THEN SubSeq(w, 6, Len(w)) ELSE SubSeq(w, 4, Len(w))

---------------------------------------------------------------------------
(* C1.                                                                     *)

\* The TimeSpec inside the outcome of either time parser.
TimeSpecOf(r) == IF op = "TimeSpec::from_str" THEN r.val ELSE r.val.spec

\* C1: joint-sign law. For every hour h of HourTexts, minute m of
\* MinuteTexts and second s of SecondTexts, the text "-h:m" parses to
\* HoursMinutes(-h, -m) and "-h:m:s" to HoursMinutesSeconds(-h, -m, -s), and
\* the same texts without the '-' parse to the same components, none
\* negative.
C1_JointSign ==
    op \in {"TimeSpecAndType::from_str", "TimeSpec::from_str"} =>
      \A h \in HourTexts, m \in MinuteTexts :
        /\ input = "-" \o h \o ":" \o m =>
             IsOk(result) /\ TimeSpecOf(result) = HoursMinutes(0 - Decimal(h), 0 - Decimal(m))
        /\ input = h \o ":" \o m =>
             IsOk(result) /\ TimeSpecOf(result) = HoursMinutes(Decimal(h), Decimal(m))
        /\ \A s \in SecondTexts :
             /\ input = "-" \o h \o ":" \o m \o ":" \o s =>
                  /\ IsOk(result)
                  /\ TimeSpecOf(result) =
                       HoursMinutesSeconds(0 - Decimal(h), 0 - Decimal(m), 0 - Decimal(s))
             /\ input = h \o ":" \o m \o ":" \o s =>
                  /\ IsOk(result)
                  /\ TimeSpecOf(result) =
                       HoursMinutesSeconds(Decimal(h), Decimal(m), Decimal(s))

\* C1's case: "-0:01:15" has been parsed, to (0, -1, -15).
C1_Witness ==
    /\ op = "TimeSpecAndType::from_str"
    /\ input = "-0:01:15"
    /\ result = Ok(TimeSpecAndType(HoursMinutesSeconds(0, -1, -15), "Wall"))

---------------------------------------------------------------------------
(* C2.                                                                     *)

\* time is the ChangeTime that the tokens toks after FORMAT determine: its
\* variant by their number, its components their parses in the order year,
\* month, day, time.
C2_TimeIs(time, toks) ==
    CASE Len(toks) = 0 -> time = None
      [] Len(toks) = 1 ->
           /\ time # None
           /\ time[1].until = "UntilYear"
           /\ YearSpec_from_str(toks[1]) = Ok(time[1].year)
      [] Len(toks) = 2 ->
           /\ time # None
           /\ time[1].until = "UntilMonth"
           /\ YearSpec_from_str(toks[1]) = Ok(time[1].year)
           /\ MonthSpec_from_str(toks[2]) = Ok(time[1].month)
      [] Len(toks) = 3 ->
           /\ time # None
           /\ time[1].until = "UntilDay"
           /\ YearSpec_from_str(toks[1]) = Ok(time[1].year)
           /\ MonthSpec_from_str(toks[2]) = Ok(time[1].month)
           /\ DaySpec_from_str(toks[3]) = Ok(time[1].day)
      [] OTHER ->
           /\ time # None
           /\ time[1].until = "UntilTime"
           /\ YearSpec_from_str(toks[1]) = Ok(time[1].year)
           /\ MonthSpec_from_str(toks[2]) = Ok(time[1].month)
           /\ DaySpec_from_str(toks[3]) = Ok(time[1].day)
           /\ TimeSpecAndType_from_str(toks[4]) = Ok(time[1].time)

\* C2: ZoneInfo cascade. Whenever a Zone or Continuation line is accepted,
\* its time is None exactly when no token follows FORMAT, UntilYear for one
\* token, UntilMonth for two, UntilDay for three and UntilTime for four or
\* more, with the parses of those tokens as components.
C2_Cascade == AcceptedZoneInfo => C2_TimeIs(TheZoneInfo.time, OptionalTokens)

\* C2's case: a continuation with five tokens after FORMAT was accepted, as
\* UntilTime.
C2_Witness ==
    /\ IsLine("Continuation")
    /\ Len(OptionalTokens) = 5
    /\ result.val.info.time # None
    /\ result.val.info.time[1].until = "UntilTime"

---------------------------------------------------------------------------
(* C3.                                                                     *)

\* Each token of q parses as the column at its position.
PrefixParses(q) ==
    /\ Len(q) >= 1 => IsOk(YearSpec_from_str(q[1]))
    /\ Len(q) >= 2 => IsOk(MonthSpec_from_str(q[2]))
    /\ Len(q) >= 3 => IsOk(DaySpec_from_str(q[3]))
    /\ Len(q) >= 4 => IsOk(TimeSpecAndType_from_str(q[4]))

\* Year, month, day and time texts with some column left out, so that what
\* is present is no prefix of the four and cannot be read as one.
OutOfPrefixOrder == {q \in OptionalColumnChoices : ~PrefixParses(q)}

\* C3: a Zone or Continuation line whose optional columns are present out of
\* prefix order is refused with the error InvalidFieldCombination.
C3_InvalidFieldCombination ==
    op \in {"Line::from_str", "Zone::from_str"} =>
      \A q \in OutOfPrefixOrder :
        LET info == Join(SubSeq(ZoneBase, 1, 3) \o q, " ")
        IN  input \in {"Zone Europe/London " \o info, " " \o info} =>
              result = [tag |-> "Err", err |-> "InvalidFieldCombination"]

---------------------------------------------------------------------------
(* C4.                                                                     *)

\* C4: no line aborts. Line::from_str returns one of the five Line variants
\* or Error::Fail, whatever the line.
C4_NoAbort ==
    op = "Line::from_str" =>
      \/ result = ErrFail
      \/ /\ IsOk(result)
         /\ result.val.line \in {"Space", "Zone", "Continuation", "Rule", "Link"}

---------------------------------------------------------------------------
(* C5.                                                                     *)

\* The five attempts of the classifier, each on its own.
C5_Attempts(l) ==
    << IF is_match(EMPTY_LINE, l) THEN Ok(Space) ELSE ErrFail,
       Try(Zone_from_str(l), LAMBDA zone : Ok(LineZone(zone))),
       IfSome(captures(CONTINUATION_LINE, l),
              LAMBDA caps :
                Try(ZoneInfo_from_captures(caps), LAMBDA info : Ok(Continuation(info))),
              ErrFail),
       Try(Rule_from_str(l), LAMBDA rule : Ok(LineRule(rule))),
       Try(Link_from_str(l), LAMBDA link : Ok(LineLink(link))) >>

\* The first attempt of a that succeeded, or Error::Fail when none did.
FirstSuccess(a) ==
    IF \E i \in 1..Len(a) : IsOk(a[i])
    THEN a[CHOOSE i \in 1..Len(a) : IsOk(a[i]) /\ \A j \in 1..(i - 1) : ~IsOk(a[j])]
    ELSE ErrFail

\* C5: classifier order. When Line::from_str returns, it returns the first
\* success of blank, Zone, Continuation, Rule, Link in that order; and a line
\* that Zone::from_str accepts and that is not blank is returned as
\* Line::Zone with that record.
C5_ClassifierOrder ==
    (op = "Line::from_str" /\ result.tag # "Panic") =>
      /\ result = FirstSuccess(C5_Attempts(input))
      /\ (IsOk(Zone_from_str(input)) /\ ~is_match(EMPTY_LINE, input)) =>
           result = Ok(LineZone(Zone_from_str(input).val))

\* C5's case: a comment that also has the shape of a continuation was
\* returned as Space.
C5_Witness ==
    /\ IsLine("Space")
    /\ input = "  # so is this ## "
    /\ is_match(CONTINUATION_LINE, input)

---------------------------------------------------------------------------
(* C6.                                                                     *)

\* s is whitespace alone, or whitespace, a '#' and anything up to the end of
\* the line.
IsBlankText(s) ==
    \E n \in 0..Len(s) :
        /\ \A i \in 1..n : CharAt(s, i) \in Whitespace
        /\ \/ n = Len(s)
           \/ /\ CharAt(s, n + 1) = "#"
              /\ \A i \in (n + 2)..Len(s) : CharAt(s, i) # "\n"

\* C6: blank-line law. Line::from_str returns Space for every text that is
\* whitespace optionally followed by a '#' comment, and for no other text.
C6_BlankLine == op = "Line::from_str" => (IsBlankText(input) <=> result = Ok(Space))

\* C6's case: whitespace and a comment with further '#' in it gave Space.
C6_Witness ==
    /\ op = "Line::from_str"
    /\ input = "\t #\t# "
    /\ result = Ok(Space)

---------------------------------------------------------------------------
(* C7.                                                                     *)

\* C7: Rule TO field. In every accepted Rule, a TO token of decimal digits
\* denoting n gives to_year = Some(Number(n)), the TO token "only" gives
\* to_year = None, and from_year is the parse of the FROM token.
C7_ToYear ==
    AcceptedRule =>
      LET w == Words(input)
      IN  /\ AllDigits(w[4]) => TheRule.to_year = Some(Number(Decimal(w[4])))
          /\ w[4] = "only" => TheRule.to_year = None
          /\ YearSpec_from_str(w[3]) = Ok(TheRule.from_year)

\* C7's case: a Rule with TO 1973 was accepted.
C7_Witness ==
    /\ op = "Rule::from_str"
    /\ input = "Rule US 1967 1973 - Apr lastSun 2:00 1:00 D"
    /\ IsOk(result)
    /\ result.val.to_year = Some(Number(1973))

---------------------------------------------------------------------------
(* C8.                                                                     *)

\* t is whitespace followed by a '#' and anything.
IsCommentTrailer(t) ==
    \E n \in 1..(Len(t) - 1) :
        /\ \A i \in 1..n : CharAt(t, i) \in Whitespace
        /\ CharAt(t, n + 1) = "#"

IsLinkLine(r) == IsOk(r) /\ r.val.line = "Link"

\* C8: a trailing comment on a Link line is ignored. Whenever the line is a
\* text that Line::from_str accepts as a Link followed by whitespace and a
\* '#' comment, the outcome is that same Link.
C8_TrailingComment ==
    op = "Line::from_str" =>
      \A n \in 1..Len(input) :
        (/\ IsCommentTrailer(SubSeq(input, n + 1, Len(input)))
         /\ IsLinkLine(Line_from_str(SubSeq(input, 1, n))))
        => result = Line_from_str(SubSeq(input, 1, n))

\* C8's case: a Link followed by a comment with a second '#' was accepted.
C8_Witness ==
    /\ op = "Line::from_str"
    /\ input = "Link Europe/Istanbul Asia/Istanbul   # comment ## comment"
    /\ result = Ok(LineLink([existing |-> "Europe/Istanbul", new |-> "Asia/Istanbul"]))

---------------------------------------------------------------------------
(* C9.                                                                     *)

\* The line begins with the keyword Rule as a token of its own.
HasRuleKeyword == starts_with(input, "Rule") /\ Words(input)[1] = "Rule"

\* The outcome of a Rule parse as the caller of op sees it.
AsReturned(r) == IF op = "Line::from_str" /\ IsOk(r) THEN Ok(LineRule(r.val)) ELSE r

\* C9 as stated: a Rule is accepted only with exactly 9 fields after the
\* keyword, fewer and more being refused with Error::Fail (lines without a
\* '#', so that every token is a field).
C9_ExactlyNineFields ==
    (op \in {"Rule::from_str", "Line::from_str"} /\ \A i \in 1..Len(input) : CharAt(input, i) # "#") =>
      /\ AcceptedRule => HasRuleKeyword /\ Len(Words(input)) = 10
      /\ (HasRuleKeyword /\ Len(Words(input)) # 10) => result = ErrFail

\* C9: a Rule is accepted only when at least 9 tokens follow the keyword;
\* with fewer the line is refused with Error::Fail, and what follows the
\* ninth token is ignored: the outcome is that of the keyword and the first
\* nine tokens alone.
C9_AtLeastNineFields ==
    op \in {"Rule::from_str", "Line::from_str"} =>
      /\ AcceptedRule => HasRuleKeyword /\ Len(Words(input)) >= 10
      /\ (HasRuleKeyword /\ Len(Words(input)) < 10) => result = ErrFail
      /\ (HasRuleKeyword /\ Len(Words(input)) >= 10) =>
           result = AsReturned(Rule_from_str(Join(SubSeq(Words(input), 1, 10), " ")))

\* C9's case: a Rule line with a tenth field was accepted.
C9_Witness ==
    /\ op = "Rule::from_str"
    /\ input = "Rule US 1967 1973 - Apr lastSun 2:00 1:00 D x"
    /\ IsOk(result)
    /\ result.val.letters = Some("D")

---------------------------------------------------------------------------
(* C10.                                                                    *)

\* C10: Saving grammar. "-" gives NoSaving; otherwise a token of letters,
\* '_' and '-' gives Multiple; otherwise a token that parses as a TimeSpec
\* ts, in any of its shapes, gives OneOff(ts); otherwise the parse fails.
C10_SavingGrammar ==
    op = "Saving::from_str" =>
      IF input = "-" THEN result = Ok(NoSaving)
      ELSE IF AllNameChars(input) THEN result = Ok(Multiple(input))
      ELSE IF IsOk(TimeSpec_from_str(input))
           THEN result = Ok(OneOff(TimeSpec_from_str(input).val))
      ELSE ~IsOk(result)

---------------------------------------------------------------------------
(* C11.                                                                    *)

\* The h:mm and h:mm:ss texts of FlaggedTexts without their flag, each with
\* the TimeSpec it denotes.
C11_Bases ==
    {<<"2:00", HoursMinutes(2, 0)>>, <<"-1:30", HoursMinutes(-1, -30)>>,
     <<"0:00:00", HoursMinutesSeconds(0, 0, 0)>>,
     <<"-0:01:15", HoursMinutesSeconds(0, -1, -15)>>}

\* The time type a flag of FlagTexts selects, None for a flag that is no
\* flag.
C11_TypeOf(f) ==
    CASE f \in {"", "w"}      -> Some("Wall")
      [] f = "s"              -> Some("Standard")
      [] f \in {"u", "g", "z"} -> Some("UTC")
      [] OTHER                -> None

\* C11: time-reference flag. For every h:mm or h:mm:ss text b of C11_Bases
\* and every trailing character f of FlagTexts: TimeSpecAndType::from_str
\* of b followed by f gives the components of b with type Wall for 'w' or
\* no flag, Standard for 's', UTC for 'u', 'g' and 'z', and fails for any
\* other character; TimeSpec::from_str gives the components of b for 'w' or
\* no flag and fails for every other f.
C11_TimeFlag ==
    \A b \in C11_Bases, f \in FlagTexts :
      input = b[1] \o f =>
        /\ op = "TimeSpecAndType::from_str" =>
             IF C11_TypeOf(f) = None THEN result = ErrFail
             ELSE result = Ok(TimeSpecAndType(b[2], C11_TypeOf(f)[1]))
        /\ op = "TimeSpec::from_str" =>
             IF C11_TypeOf(f) = Some("Wall") THEN result = Ok(b[2])
             ELSE result = ErrFail

\* C11's case: "-0:01:15g" has been parsed, to (0, -1, -15) in UTC.
C11_Witness ==
    /\ op = "TimeSpecAndType::from_str"
    /\ input = "-0:01:15g"
    /\ result = Ok(TimeSpecAndType(HoursMinutesSeconds(0, -1, -15), "UTC"))

---------------------------------------------------------------------------
(* What the resolution properties speak of.                                *)

\* to_concrete_date was called with a DaySpec of the given shape.
Resolved(shape) == op = "DaySpec::to_concrete_date" /\ input.self.day = shape

\* Day d of the month of the call falls on the weekday of its DaySpec.
OnWeekday(d) == weekday(LocalDate(input.year, input.month, d)) = input.self.w.weekday

\* The days of the month of the call.
DaysOfMonth == 1..days_in_month(input.year, input.month)

\* The call returned day d of its month.
ReturnedDay(d) == result = Ok(LocalDate(input.year, input.month, d))

---------------------------------------------------------------------------
(* C12.                                                                    *)

\* C12: LastOnOrBefore is inclusive of its bound. For every year of
\* ResolveYears, every month, weekday w and day n of the month, when some
\* day d <= n of the month falls on w, to_concrete_date of
\* LastOnOrBefore(w, n) returns the latest such d; so it returns n itself
\* when n falls on w.
C12_Inclusive ==
    Resolved("LastOnOrBefore") /\ input.self.n \in DaysOfMonth =>
      \A d \in 1..input.self.n :
        (OnWeekday(d) /\ \A e \in (d + 1)..input.self.n : ~OnWeekday(e)) => ReturnedDay(d)

---------------------------------------------------------------------------
(* C13.                                                                    *)

\* C13: the scans of Last and FirstOnOrAfter always find a match. For every
\* year of ResolveYears, every month and weekday w, to_concrete_date of
\* Last(w) returns the latest day of the month that falls on w, and for
\* every day n of the month to_concrete_date of FirstOnOrAfter(w, n) returns
\* the earliest day d >= n of the month that falls on w.
C13_MatchFound ==
    /\ Resolved("Last") =>
         \E d \in DaysOfMonth :
           /\ OnWeekday(d) /\ \A e \in DaysOfMonth : e > d => ~OnWeekday(e)
           /\ ReturnedDay(d)
    /\ Resolved("FirstOnOrAfter") /\ input.self.n \in DaysOfMonth =>
         \E d \in DaysOfMonth :
           /\ d >= input.self.n /\ OnWeekday(d)
           /\ \A e \in input.self.n..(d - 1) : ~OnWeekday(e)
           /\ ReturnedDay(d)

---------------------------------------------------------------------------
(* C14.                                                                    *)

\* C14: resolution is fail-safe. For every DaySpec of DaySpecs, every year
\* of ResolveYears and every month, to_concrete_date returns a date of that
\* month or an error value and never aborts; Ordinal(n) with n below 1 or
\* above the month's day count gives InvalidDate; a weekday scan that is
\* left without a match gives WeekdayNotFound.
C14_FailSafe ==
    op = "DaySpec::to_concrete_date" =>
      /\ result.tag \in {"Ok", "Err"}
      /\ IsOk(result) => \E d \in DaysOfMonth : ReturnedDay(d)
      /\ Resolved("Ordinal") /\ input.self.n \notin DaysOfMonth =>
           result = [tag |-> "Err", err |-> "InvalidDate"]
      /\ Resolved("LastOnOrBefore") /\ (\A d \in DaysOfMonth : d <= input.self.n => ~OnWeekday(d)) =>
           result = [tag |-> "Err", err |-> "WeekdayNotFound"]

---------------------------------------------------------------------------
(* C15.                                                                    *)

\* C15: for every ChangeTime of ChangeTimes, of any of the four shapes,
\* whose year is Minimum or Maximum (as parsed from "min", "minimum", "max"
\* and "maximum" in the UNTIL year column), to_timestamp fails with the
\* error UnresolvedYearBound: it neither aborts nor returns a timestamp.
C15_UnresolvedYearBound ==
    op = "ChangeTime::to_timestamp" /\ input.self.year \in {Minimum, Maximum} =>
      result = [tag |-> "Err", err |-> "UnresolvedYearBound"]

---------------------------------------------------------------------------
(* C16.                                                                    *)

\* The outcome of to_timestamp for c in the build of the call.
C16_Timestamp(c) == to_timestamp(c, input.overflow_checks)

\* C16: a missing granularity is the earliest point. For every ChangeTime
\* of ChangeTimes with a numeric year y: UntilYear(y) resolves as
\* UntilMonth(y, January); UntilMonth(y, m) as UntilDay(y, m, Ordinal(1));
\* UntilDay(y, m, d), for d that resolves, as UntilTime(y, m, d, Zero) of
\* every time type; and UntilTime(y, m, d, t) resolves the same whichever
\* the time type of t.
C16_EarliestPoint ==
    op = "ChangeTime::to_timestamp" /\ input.self.year.year = "Number" =>
      LET c == input.self IN
      /\ c.until = "UntilYear" =>
           result = C16_Timestamp(UntilMonth(c.year, MonthSpec("January")))
      /\ c.until = "UntilMonth" =>
           result = C16_Timestamp(UntilDay(c.year, c.month, Ordinal(1)))
      /\ c.until = "UntilDay" /\ IsOk(result) =>
           \A type \in {"Wall", "Standard", "UTC"} :
             result = C16_Timestamp(UntilTime(c.year, c.month, c.day,
                                              TimeSpecAndType(Zero, type)))
      /\ c.until = "UntilTime" =>
           \A type \in {"Wall", "Standard", "UTC"} :
             result = C16_Timestamp(UntilTime(c.year, c.month, c.day,
                                              TimeSpecAndType(c.time.spec, type)))

\* C16's case: the last Sunday of March 1972 at Zero in standard time has
\* been resolved, to the midnight that starts 1972-03-26.
C16_Witness ==
    /\ op = "ChangeTime::to_timestamp"
    /\ input.self = UntilTime(Number(1972), MonthSpec("March"), Last(WeekdaySpec("Sunday")),
                              TimeSpecAndType(Zero, "Standard"))
    /\ result = Ok(70416000)

---------------------------------------------------------------------------
(* C17.                                                                    *)

\* The optional groups of caps that took part in the match are year, month,
\* day and time up to some point, and none after it.
C17_IsPrefix(caps) ==
    /\ caps.month # None => caps.year # None
    /\ caps.day # None => caps.month # None
    /\ caps.time # None => caps.day # None

\* C17: prefix invariant of the Zone and Continuation patterns. For every
\* text of Lines and ZoneLines that ZONE_LINE or CONTINUATION_LINE matches,
\* no optional group is captured while an earlier one is absent, and the
\* call does not end in the unreachable! arm of ZoneInfo::from_captures.
C17_PrefixInvariant ==
    op \in {"Line::from_str", "Zone::from_str"} =>
      /\ \A re \in {ZONE_LINE, CONTINUATION_LINE} :
           captures(re, input) # None => C17_IsPrefix(captures(re, input)[1])
      /\ result # Panic("Out-of-order capturing groups!")

\* C17's case: a continuation line has been matched with its year and month
\* groups captured and its day and time groups absent.
C17_Witness ==
    /\ op = "Line::from_str"
    /\ captures(CONTINUATION_LINE, input) # None
    /\ captures(CONTINUATION_LINE, input)[1].year # None
    /\ captures(CONTINUATION_LINE, input)[1].month # None
    /\ captures(CONTINUATION_LINE, input)[1].day = None
    /\ captures(CONTINUATION_LINE, input)[1].time = None

---------------------------------------------------------------------------
(* C18.                                                                    *)

\* The line handed to the call begins with whitespace.
C18_Indented == input # "" /\ CharAt(input, 1) \in Whitespace

\* Line::from_str returned a record of the variant v.
C18_Returned(v) == IsOk(result) /\ result.val.line = v

\* C18: the start of the line fixes the outcomes of Line::from_str. For
\* every text of Lines: Zone, Rule and Link are returned only for a text
\* that begins with the keyword "Zone", "Rule" or "Link", and Continuation
\* only for one that begins with whitespace; a text that begins with
\* whitespace gives Space, Continuation or no record at all; and whenever
\* CONTINUATION_LINE matches the text, neither Rule::from_str nor
\* Link::from_str accepts it, so the error returned from the continuation
\* step hides no Rule and no Link.
C18_LineStart ==
    op = "Line::from_str" =>
      /\ C18_Returned("Zone") => starts_with(input, "Zone")
      /\ C18_Returned("Rule") => starts_with(input, "Rule")
      /\ C18_Returned("Link") => starts_with(input, "Link")
      /\ C18_Returned("Continuation") => C18_Indented
      /\ C18_Indented /\ IsOk(result) => result.val.line \in {"Space", "Continuation"}
      /\ captures(CONTINUATION_LINE, input) # None =>
           ~IsOk(Rule_from_str(input)) /\ ~IsOk(Link_from_str(input))

\* C18's case: a well-formed Rule line behind one space has matched
\* CONTINUATION_LINE, and the call has returned the error of that step.
C18_Witness ==
    /\ op = "Line::from_str"
    /\ input = " Rule " \o Join(RuleBase, " ")
    /\ captures(CONTINUATION_LINE, input) # None
    /\ IsOk(Rule_from_str(SubSeq(input, 2, Len(input))))
    /\ result = ErrFail

---------------------------------------------------------------------------
(* C19.                                                                    *)

\* r is a Zone or a Continuation that Line::from_str returned.
C19_IsZoneInfoLine(r) == IsOk(r) /\ r.val.line \in {"Zone", "Continuation"}

\* C19: a trailing comment on a Zone or Continuation line is ignored.
\* Whenever the line is a text that Line::from_str accepts as a Zone or a
\* Continuation, with none to four of the optional columns, followed by
\* whitespace and a '#' comment, the outcome is that same record.
C19_TrailingComment ==
    op = "Line::from_str" =>
      \A n \in 1..Len(input) :
        (/\ IsCommentTrailer(SubSeq(input, n + 1, Len(input)))
         /\ C19_IsZoneInfoLine(Line_from_str(SubSeq(input, 1, n))))
        => result = Line_from_str(SubSeq(input, 1, n))

====
